---- MODULE Spec2Model ----
(***************************************************************************)
(* The CBOR Writer / Reader pair of languages/rust/runtime/src/lib.rs.     *)
(*                                                                         *)
(* Machine integers.  The code works on u8..u64, i8..i64 and usize, whose  *)
(* values exceed the range of TLC's integers, so a value of an N-bit type  *)
(* is its N/8 base-256 digits, least significant digit first (index 1).    *)
(* A signed value is its two's-complement bit pattern in the same form.    *)
(* A byte of a buffer is an integer in 0..255.  usize is 64 bits wide.     *)
(***************************************************************************)
EXTENDS Integers, Sequences, FiniteSets, TLC

VARIABLES
    overflow_checks, \* the build: TRUE = arithmetic overflow panics (debug),
                     \* FALSE = it wraps (release)
    phase,           \* "write": the Writer is live; "read": a Reader is live
    buf,             \* Writer.buf
    calls,           \* the Writer calls made so far, <<[op, v]>> (history)
    ends,            \* Len(buf) after each of those calls (history)
    data,            \* Reader.data
    pos,             \* Reader.pos
    done,            \* number of Writer calls the Reader has read back in order
    last             \* the last Reader call: [op, st, val, from, acc]

vars == <<overflow_checks, phase, buf, calls, ends, data, pos, done, last>>

----------------------------------------------------------------------------
(* Digit vectors *)

Reverse(s) == [i \in 1..Len(s) |-> s[Len(s) + 1 - i]]

\* v.to_be_bytes(): most significant byte first
to_be_bytes(v) == Reverse(v)

\* a decoder that takes the payload least significant byte first
from_le_bytes(bs) == bs

\* uN::from_be_bytes([..])
from_be_bytes(bs) == Reverse(bs)

\* `v as uW` between unsigned types: truncation or zero extension to w bytes
as_uint(v, w) == [i \in 1..w |-> IF i <= Len(v) THEN v[i] ELSE 0]

\* a small natural number (below 2^24) as a w-byte value; digits above the
\* third are zero
uint_of(n, w) == [i \in 1..w |-> CASE i = 1 -> n % 256
                                   [] i = 2 -> (n \div 256) % 256
                                   [] i = 3 -> (n \div 65536) % 256
                                   [] OTHER -> 0]

\* the natural number held by a value whose digits above the third are zero
nat_of(v) == (IF Len(v) >= 1 THEN v[1] ELSE 0)
           + (IF Len(v) >= 2 THEN v[2] * 256 ELSE 0)
           + (IF Len(v) >= 3 THEN v[3] * 65536 ELSE 0)

RECURSIVE ule_from(_, _, _)
ule_from(a, b, i) ==
    IF i = 0 THEN TRUE
    ELSE IF a[i] # b[i] THEN a[i] < b[i]
    ELSE ule_from(a, b, i - 1)

\* a <= b on unsigned values of the same width
ule(a, b) == ule_from(a, b, Len(a))

\* a > b
ugt(a, b) == ~ule(a, b)

RECURSIVE add_from(_, _, _, _)
add_from(a, b, i, c) ==
    IF i > Len(a) THEN <<c>>
    ELSE LET s == a[i] + b[i] + c
         IN  <<s % 256>> \o add_from(a, b, i + 1, s \div 256)

\* a + b on same-width unsigned values: [val |-> the sum modulo 2^N,
\* ovf |-> whether the true sum does not fit]
uadd(a, b) ==
    LET s == add_from(a, b, 1, 0)
    IN  [val |-> SubSeq(s, 1, Len(a)), ovf |-> s[Len(a) + 1] = 1]

\* v >= 0 for a signed value: the top bit is clear
is_nonneg(v) == v[Len(v)] < 128

\* -1 - v on a signed value.  In two's complement -1 - v is the bitwise
\* complement of v, for every v: the subtraction never overflows.
minus1_minus(v) == [i \in 1..Len(v) |-> 255 - v[i]]

----------------------------------------------------------------------------
(* Writer: each method maps the buffer to the buffer after the call *)

\* write_maj_len with `n < 0xff` for `n <= 0xff`
write_maj_len_strict(b, base, n) ==
    IF ule(n, uint_of(23, 8)) THEN
        Append(b, base + as_uint(n, 1)[1])
    ELSE IF ule(n, uint_of(254, 8)) THEN
        Append(b, base + 24) \o to_be_bytes(as_uint(n, 1))
    ELSE IF ule(n, uint_of(65535, 8)) THEN
        Append(b, base + 25) \o to_be_bytes(as_uint(n, 2))
    ELSE IF ule(n, <<255, 255, 255, 255, 0, 0, 0, 0>>) THEN
        Append(b, base + 26) \o to_be_bytes(as_uint(n, 4))
    ELSE
        Append(b, base + 27) \o to_be_bytes(n)

\* lib.rs:138 write_maj_len
write_maj_len(b, base, n) ==
    IF ule(n, uint_of(23, 8)) THEN
        Append(b, base + as_uint(n, 1)[1])
    ELSE IF ule(n, uint_of(255, 8)) THEN
        Append(b, base + 24) \o to_be_bytes(as_uint(n, 1))
    ELSE IF ule(n, uint_of(65535, 8)) THEN
        Append(b, base + 25) \o to_be_bytes(as_uint(n, 2))
    ELSE IF ule(n, <<255, 255, 255, 255, 0, 0, 0, 0>>) THEN
        Append(b, base + 26) \o to_be_bytes(as_uint(n, 4))
    ELSE
        Append(b, base + 27) \o to_be_bytes(n)

write_bool(b, v) == Append(b, IF v THEN 245 ELSE 244)

write_null(b) == Append(b, 246)

write_u8(b, v) == Append(b, 24) \o <<v[1]>>

write_u16(b, v) == Append(b, 25) \o to_be_bytes(v)

write_u32(b, v) == Append(b, 26) \o to_be_bytes(v)

write_u64(b, v) == Append(b, 27) \o to_be_bytes(v)

write_i8(b, v) ==
    IF is_nonneg(v) THEN Append(b, 24) \o <<v[1]>>
    ELSE Append(b, 56) \o <<minus1_minus(v)[1]>>

write_i16(b, v) ==
    IF is_nonneg(v) THEN Append(b, 25) \o to_be_bytes(v)
    ELSE Append(b, 57) \o to_be_bytes(minus1_minus(v))

write_i32(b, v) ==
    IF is_nonneg(v) THEN Append(b, 26) \o to_be_bytes(v)
    ELSE Append(b, 58) \o to_be_bytes(minus1_minus(v))

write_i64(b, v) ==
    IF is_nonneg(v) THEN Append(b, 27) \o to_be_bytes(v)
    ELSE Append(b, 59) \o to_be_bytes(minus1_minus(v))

write_uvarint(b, v) == write_maj_len(b, 0, v)

write_ivarint(b, v) ==
    IF is_nonneg(v) THEN write_maj_len(b, 0, v)
    ELSE write_maj_len(b, 32, minus1_minus(v))

\* v is an f32 given by its bit pattern (v.to_bits())
write_f32(b, v) == Append(b, 250) \o to_be_bytes(v)

\* v is an f64 given by its bit pattern
write_f64(b, v) == Append(b, 251) \o to_be_bytes(v)

\* v is a &str given by its UTF-8 bytes
write_string(b, v) == write_maj_len(b, 96, uint_of(Len(v), 8)) \o v

write_bytes(b, v) == write_maj_len(b, 64, uint_of(Len(v), 8)) \o v

\* len is a usize
write_array_header(b, len) == write_maj_len(b, 128, len)

write_tag_header(b, tag) == write_maj_len(b, 192, tag)

write_byte(b, x) == Append(b, x)

----------------------------------------------------------------------------
(* Reader.  A method maps (data, pos) to the outcome of the call:           *)
(*   st  : "Ok", "UnexpectedEnd", "InvalidData", "Panic" (the call unwinds  *)
(*         with a panic) or "NoReturn" (skip only, see skip_rec)            *)
(*   pos : Reader.pos when the call ends                                    *)
(*   val : the value returned with Ok, <<>> otherwise                       *)
(*   acc : the indices of data the call indexed                             *)

Ok(p, v, a) == [st |-> "Ok", pos |-> p, val |-> v, acc |-> a]

Err(e, p, a) == [st |-> e, pos |-> p, val |-> <<>>, acc |-> a]

\* the outcome r of a later step, after earlier steps that indexed a
also(r, a) == [r EXCEPT !.acc = @ \cup a]

\* [data[p], data[p + 1], .. data[p + w - 1]]: Rust's indexing panics on an
\* index that is not below data.len()
index_bytes(d, p, w) ==
    IF p + w <= Len(d) THEN Ok(p, [i \in 1..w |-> d[p + i]], p..(p + w - 1))
    ELSE Err("Panic", p, p..(p + w - 1))

\* lib.rs:359
read_byte(d, p) ==
    IF p < Len(d) THEN Ok(p + 1, d[p + 1], {p})
    ELSE Err("UnexpectedEnd", p, {})

\* lib.rs:365
peek_byte(d, p) ==
    IF p < Len(d) THEN Ok(p, d[p + 1], {p})
    ELSE Err("UnexpectedEnd", p, {})

\* read_u16_raw with the bounds test `self.pos + 1 > self.data.len()`
read_u16_raw_short(d, p) ==
    IF p + 1 > Len(d) THEN Err("UnexpectedEnd", p, {})
    ELSE LET b == index_bytes(d, p, 2)
         IN  IF b.st # "Ok" THEN b
             ELSE Ok(p + 2, from_be_bytes(b.val), b.acc)

\* lib.rs:432
read_u16_raw(d, p) ==
    IF p + 2 > Len(d) THEN Err("UnexpectedEnd", p, {})
    ELSE LET b == index_bytes(d, p, 2)
         IN  IF b.st # "Ok" THEN b
             ELSE Ok(p + 2, from_be_bytes(b.val), b.acc)

\* lib.rs:441
read_u32_raw(d, p) ==
    IF p + 4 > Len(d) THEN Err("UnexpectedEnd", p, {})
    ELSE LET b == index_bytes(d, p, 4)
         IN  IF b.st # "Ok" THEN b
             ELSE Ok(p + 4, from_be_bytes(b.val), b.acc)

\* read_u64_raw that reports short input as InvalidData
read_u64_raw_invalid(d, p) ==
    IF p + 8 > Len(d) THEN Err("InvalidData", p, {})
    ELSE LET b == index_bytes(d, p, 8)
         IN  IF b.st # "Ok" THEN b
             ELSE Ok(p + 8, from_be_bytes(b.val), b.acc)

\* lib.rs:453
read_u64_raw(d, p) ==
    IF p + 8 > Len(d) THEN Err("UnexpectedEnd", p, {})
    ELSE LET b == index_bytes(d, p, 8)
         IN  IF b.st # "Ok" THEN b
             ELSE Ok(p + 8, from_be_bytes(b.val), b.acc)

\* a successful outcome r with its value converted by `as u64` / `as usize`
as_u64(r) == IF r.st = "Ok" THEN [r EXCEPT !.val = as_uint(@, 8)] ELSE r

\* read_byte()? as u64
read_byte_u64(d, p) ==
    LET r == read_byte(d, p)
    IN  IF r.st = "Ok" THEN [r EXCEPT !.val = as_uint(<<@>>, 8)] ELSE r

\* read_bool that puts the header byte back when it is not a bool
read_bool_restoring(d, p) ==
    LET h == read_byte(d, p)
    IN  IF h.st # "Ok" THEN h
        ELSE IF h.val = 245 THEN Ok(h.pos, TRUE, h.acc)
        ELSE IF h.val = 244 THEN Ok(h.pos, FALSE, h.acc)
        ELSE Err("InvalidData", p, h.acc)

\* lib.rs:192
read_bool(d, p) ==
    LET h == read_byte(d, p)
    IN  IF h.st # "Ok" THEN h
        ELSE IF h.val = 245 THEN Ok(h.pos, TRUE, h.acc)
        ELSE IF h.val = 244 THEN Ok(h.pos, FALSE, h.acc)
        ELSE Err("InvalidData", h.pos, h.acc)

\* lib.rs:202
read_u8(d, p) ==
    LET h == read_byte(d, p)
    IN  IF h.st # "Ok" THEN h
        ELSE IF h.val # 24 THEN Err("InvalidData", h.pos, h.acc)
        ELSE LET r == read_byte(d, h.pos)
             IN  IF r.st # "Ok" THEN also(r, h.acc)
                 ELSE Ok(r.pos, <<r.val>>, h.acc \cup r.acc)

\* a read_u16 that also takes the one-byte form 0x18
read_u16_lenient(d, p) ==
    LET h == read_byte(d, p)
    IN  IF h.st # "Ok" THEN h
        ELSE IF h.val = 24 THEN
            LET r == read_byte(d, h.pos)
            IN  IF r.st # "Ok" THEN also(r, h.acc)
                ELSE Ok(r.pos, <<r.val, 0>>, h.acc \cup r.acc)
        ELSE IF h.val # 25 THEN Err("InvalidData", h.pos, h.acc)
        ELSE also(read_u16_raw(d, h.pos), h.acc)

\* lib.rs:210
read_u16(d, p) ==
    LET h == read_byte(d, p)
    IN  IF h.st # "Ok" THEN h
        ELSE IF h.val # 25 THEN Err("InvalidData", h.pos, h.acc)
        ELSE also(read_u16_raw(d, h.pos), h.acc)

\* lib.rs:218
read_u32(d, p) ==
    LET h == read_byte(d, p)
    IN  IF h.st # "Ok" THEN h
        ELSE IF h.val # 26 THEN Err("InvalidData", h.pos, h.acc)
        ELSE also(read_u32_raw(d, h.pos), h.acc)

\* lib.rs:226
read_u64(d, p) ==
    LET h == read_byte(d, p)
    IN  IF h.st # "Ok" THEN h
        ELSE IF h.val # 27 THEN Err("InvalidData", h.pos, h.acc)
        ELSE also(read_u64_raw(d, h.pos), h.acc)

\* a successful outcome r with its value x replaced by -1 - x (x as iN)
negated(r) == IF r.st = "Ok" THEN [r EXCEPT !.val = minus1_minus(@)] ELSE r

\* lib.rs:235
read_i8(d, p) ==
    LET h == read_byte(d, p)
        r == read_byte(d, h.pos)
        v == IF r.st = "Ok" THEN [r EXCEPT !.val = <<@>>] ELSE r
    IN  IF h.st # "Ok" THEN h
        ELSE IF h.val = 24 THEN also(v, h.acc)
        ELSE IF h.val = 56 THEN also(negated(v), h.acc)
        ELSE Err("InvalidData", h.pos, h.acc)

\* lib.rs:244
read_i16(d, p) ==
    LET h == read_byte(d, p)
    IN  IF h.st # "Ok" THEN h
        ELSE IF h.val = 25 THEN also(read_u16_raw(d, h.pos), h.acc)
        ELSE IF h.val = 57 THEN also(negated(read_u16_raw(d, h.pos)), h.acc)
        ELSE Err("InvalidData", h.pos, h.acc)

\* lib.rs:253
read_i32(d, p) ==
    LET h == read_byte(d, p)
    IN  IF h.st # "Ok" THEN h
        ELSE IF h.val = 26 THEN also(read_u32_raw(d, h.pos), h.acc)
        ELSE IF h.val = 58 THEN also(negated(read_u32_raw(d, h.pos)), h.acc)
        ELSE Err("InvalidData", h.pos, h.acc)

\* lib.rs:262
read_i64(d, p) ==
    LET h == read_byte(d, p)
    IN  IF h.st # "Ok" THEN h
        ELSE IF h.val = 27 THEN also(read_u64_raw(d, h.pos), h.acc)
        ELSE IF h.val = 59 THEN also(negated(read_u64_raw(d, h.pos)), h.acc)
        ELSE Err("InvalidData", h.pos, h.acc)

\* lib.rs:272
read_uvarint(d, p) ==
    LET h  == read_byte(d, p)
        ai == h.val % 32
    IN  IF h.st # "Ok" THEN h
        ELSE IF ai <= 23 THEN Ok(h.pos, as_uint(<<ai>>, 8), h.acc)
        ELSE IF ai = 24 THEN also(read_byte_u64(d, h.pos), h.acc)
        ELSE IF ai = 25 THEN also(as_u64(read_u16_raw(d, h.pos)), h.acc)
        ELSE IF ai = 26 THEN also(as_u64(read_u32_raw(d, h.pos)), h.acc)
        ELSE IF ai = 27 THEN also(read_u64_raw(d, h.pos), h.acc)
        ELSE Err("InvalidData", h.pos, h.acc)

\* lib.rs:285
read_ivarint(d, p) ==
    LET h   == read_byte(d, p)
        maj == h.val \div 32
        ai  == h.val % 32
        v   == IF ai <= 23 THEN Ok(h.pos, as_uint(<<ai>>, 8), h.acc)
               ELSE IF ai = 24 THEN also(read_byte_u64(d, h.pos), h.acc)
               ELSE IF ai = 25 THEN also(as_u64(read_u16_raw(d, h.pos)), h.acc)
               ELSE IF ai = 26 THEN also(as_u64(read_u32_raw(d, h.pos)), h.acc)
               ELSE IF ai = 27 THEN also(read_u64_raw(d, h.pos), h.acc)
               ELSE Err("InvalidData", h.pos, h.acc)
    IN  IF h.st # "Ok" THEN h
        ELSE IF v.st # "Ok" THEN v
        ELSE IF maj = 0 THEN v
        ELSE IF maj = 1 THEN negated(v)
        ELSE Err("InvalidData", v.pos, v.acc)

\* lib.rs:314; the f32 is given by its bit pattern
read_f32(d, p) ==
    LET h == read_byte(d, p)
    IN  IF h.st # "Ok" THEN h
        ELSE IF h.val # 250 THEN Err("InvalidData", h.pos, h.acc)
        ELSE also(read_u32_raw(d, h.pos), h.acc)

\* lib.rs:323; the f64 is given by its bit pattern
read_f64(d, p) ==
    LET h == read_byte(d, p)
    IN  IF h.st # "Ok" THEN h
        ELSE IF h.val # 251 THEN Err("InvalidData", h.pos, h.acc)
        ELSE also(read_u64_raw(d, h.pos), h.acc)

\* lib.rs:467
read_maj_len(d, p, expected_major) ==
    LET h   == read_byte(d, p)
        maj == h.val \div 32
        ai  == h.val % 32
    IN  IF h.st # "Ok" THEN h
        ELSE IF maj # expected_major THEN Err("InvalidData", h.pos, h.acc)
        ELSE IF ai <= 23 THEN Ok(h.pos, as_uint(<<ai>>, 8), h.acc)
        ELSE IF ai = 24 THEN also(read_byte_u64(d, h.pos), h.acc)
        ELSE IF ai = 25 THEN also(as_u64(read_u16_raw(d, h.pos)), h.acc)
        ELSE IF ai = 26 THEN also(as_u64(read_u32_raw(d, h.pos)), h.acc)
        ELSE IF ai = 27 THEN also(as_u64(read_u64_raw(d, h.pos)), h.acc)
        ELSE Err("InvalidData", h.pos, h.acc)

\* lib.rs:355
read_array_header(d, p) == read_maj_len(d, p, 4)

----------------------------------------------------------------------------
(* IEEE 754 half precision.  An f32 is its 32-bit pattern (4 digits), a u16  *)
(* pattern is 2 digits; the fields are small enough to be TLC integers.      *)

\* (bits >> 31) & 1, (bits >> 23) & 0xff and bits & 0x007f_ffff of an f32
f32_sign(v) == v[4] \div 128

f32_exp(v) == (v[4] % 128) * 2 + v[3] \div 128

f32_frac(v) == (v[3] % 128) * 65536 + v[2] * 256 + v[1]

\* the f32 with sign bit s, biased exponent e and fraction f
f32_from_fields(s, e, f) ==
    <<f % 256, (f \div 256) % 256, (e % 2) * 128 + f \div 65536, s * 128 + e \div 2>>

\* x >> k on a u32 below 2^24, for 0 <= k <= 31
shr(x, k) == IF k >= 24 THEN 0 ELSE x \div (2 ^ k)

\* lib.rs:513: let shift = -1 - unbiased + 10, for the f32 v
subnormal_shift(v) == -1 - (f32_exp(v) - 127) + 10

\* lib.rs:487.  [st |-> "Ok", val |-> the u16] or [st |-> "Panic"]: in the
\* subnormal branch the shift amount reaches 32 and 33, which panics with
\* overflow checks and is taken modulo 32 without them.
f32_to_f16_bits(v) ==
    LET sign     == f32_sign(v) * 32768
        exp      == f32_exp(v)
        frac     == f32_frac(v)
        unbiased == exp - 127
        shift    == -1 - unbiased + 10
        fwh      == frac + 8388608
        sub      == shr(fwh, shift % 32) % 65536
        ok(x)    == [st |-> "Ok", val |-> uint_of(x, 2)]
    IN  IF exp = 255 THEN
            IF frac = 0 THEN ok(sign + 31744)
            ELSE ok(sign + 31744 + shr(frac, 13) + (IF shr(frac, 13) % 2 = 0 THEN 1 ELSE 0))
        ELSE IF unbiased > 15 THEN ok(sign + 31744)
        ELSE IF unbiased < -24 THEN ok(sign)
        ELSE IF unbiased < -14 THEN
            IF shift >= 32 /\ overflow_checks THEN [st |-> "Panic", val |-> <<>>]
            ELSE ok(IF sign = 0 THEN sub ELSE 32768 + (sub % 32768))
        ELSE ok(sign + (unbiased + 15) * 1024 + shr(frac, 13))

RECURSIVE normalize(_, _)
\* lib.rs:536: while f & 0x0400 == 0 { f <<= 1; e += 1 }, giving <<e, f>>
normalize(e, f) ==
    IF (f \div 1024) % 2 = 1 THEN <<e, f>> ELSE normalize(e + 1, f * 2)

\* lib.rs:523; bits is a u16 (2 digits), the result an f32 pattern
f16_bits_to_f32(bits) ==
    LET b    == nat_of(bits)
        sign == b \div 32768
        exp  == (b \div 1024) % 32
        frac == b % 1024
        n    == normalize(exp, frac)
    IN  IF exp = 0 THEN
            IF frac = 0 THEN f32_from_fields(sign, 0, 0)
            ELSE f32_from_fields(sign, 127 - 15 - n[1] + 1, (n[2] % 1024) * 8192)
        ELSE IF exp = 31 THEN f32_from_fields(sign, 255, frac * 8192)
        ELSE f32_from_fields(sign, exp + 127 - 15, frac * 8192)

\* lib.rs:99: the header byte is pushed before the conversion runs, so a
\* conversion that panics leaves it in the buffer
write_f16(b, v) ==
    LET c == f32_to_f16_bits(v)
    IN  IF c.st = "Ok" THEN Append(b, 249) \o to_be_bytes(c.val) ELSE Append(b, 249)

\* lib.rs:305
read_f16(d, p) ==
    LET h == read_byte(d, p)
        r == read_u16_raw(d, h.pos)
    IN  IF h.st # "Ok" THEN h
        ELSE IF h.val # 249 THEN Err("InvalidData", h.pos, h.acc)
        ELSE IF r.st # "Ok" THEN also(r, h.acc)
        ELSE Ok(r.pos, f16_bits_to_f32(r.val), h.acc \cup r.acc)

----------------------------------------------------------------------------
(* Strings *)

cont(s, i) == i <= Len(s) /\ s[i] >= 128 /\ s[i] <= 191

\* the number of continuation bytes a lead byte b announces, 0 if b is none
utf8_need(b) ==
    IF b >= 194 /\ b <= 223 THEN 1
    ELSE IF b >= 224 /\ b <= 239 THEN 2
    ELSE IF b >= 240 /\ b <= 244 THEN 3
    ELSE 0

\* s[i] is a lead byte followed by the continuation bytes it announces; the
\* first of them is restricted after E0, ED, F0 and F4 (no overlong forms,
\* no surrogates, nothing above U+10FFFF)
utf8_lead(s, i) ==
    /\ utf8_need(s[i]) > 0
    /\ \A j \in 1..utf8_need(s[i]) : cont(s, i + j)
    /\ (s[i] = 224 => s[i + 1] >= 160)
    /\ (s[i] = 237 => s[i + 1] <= 159)
    /\ (s[i] = 240 => s[i + 1] >= 144)
    /\ (s[i] = 244 => s[i + 1] <= 143)

\* std::str::from_utf8(s).is_ok(): every byte is ASCII, a lead byte with its
\* continuation bytes, or one of the continuation bytes of a lead byte
valid_utf8(s) ==
    \A i \in 1..Len(s) :
        \/ s[i] < 128
        \/ utf8_lead(s, i)
        \/ /\ cont(s, i)
           /\ \E j \in 1..3 :
                /\ i - j >= 1
                /\ utf8_need(s[i - j]) >= j
                /\ \A m \in 1..(j - 1) : cont(s, i - m)

\* lib.rs:335..340 and 346..350: the bounds test `self.pos + len >
\* self.data.len()`, the slice data[pos..pos + len] and `self.pos += len`,
\* after a header outcome l that gave the length.  The sum is a usize sum:
\* when it overflows the call panics under overflow checks; without them it
\* wraps, the wrapped end lies before pos and the slice expression panics.
take_slice(d, l, utf8) ==
    LET s == uadd(uint_of(l.pos, 8), l.val)
        e == nat_of(s.val)
        b == SubSeq(d, l.pos + 1, e)
    IN  IF s.ovf /\ overflow_checks THEN Err("Panic", l.pos, l.acc)
        ELSE IF ugt(s.val, uint_of(Len(d), 8)) THEN Err("UnexpectedEnd", l.pos, l.acc)
        ELSE IF e < l.pos THEN Err("Panic", l.pos, l.acc)
        ELSE IF utf8 /\ ~valid_utf8(b) THEN Err("InvalidData", l.pos, l.acc \cup (l.pos..(e - 1)))
        ELSE Ok(e, b, l.acc \cup (l.pos..(e - 1)))

\* lib.rs:333
read_string(d, p) ==
    LET l == read_maj_len(d, p, 3)
    IN  IF l.st # "Ok" THEN l ELSE take_slice(d, l, TRUE)

\* read_bytes without `self.pos += len`
read_bytes_in_place(d, p) ==
    LET l == read_maj_len(d, p, 2)
        r == take_slice(d, l, FALSE)
    IN  IF l.st # "Ok" THEN l ELSE [r EXCEPT !.pos = l.pos]

\* lib.rs:344
read_bytes(d, p) ==
    LET l == read_maj_len(d, p, 2)
    IN  IF l.st # "Ok" THEN l ELSE take_slice(d, l, FALSE)

----------------------------------------------------------------------------
(* skip.  The outcome carries `fuel`, the number of further skip calls the  *)
(* evaluation may make.  A run in which pos never moves backwards makes at  *)
(* most Len(data) + 1 calls (each call that returns Ok consumed its header  *)
(* byte, and the first failing call ends the run), so with SkipFuel larger  *)
(* than that "NoReturn" stands for a run that is still going after more     *)
(* calls than any such run makes.                                           *)

SkipFuel == 24

fueled(r, f) == [st |-> r.st, pos |-> r.pos, val |-> r.val, acc |-> r.acc, fuel |-> f]

RECURSIVE skip_rec(_, _, _)
RECURSIVE skip_items(_, _, _, _, _)
RECURSIVE skip_indefinite(_, _, _)

\* lib.rs:424, 425: for _ in 0..n { self.skip()?; }, from iteration i on
skip_items(d, p, i, n, fuel) ==
    IF ~ugt(n, uint_of(i, 8)) THEN fueled(Ok(p, <<>>, {}), fuel)
    ELSE LET r == skip_rec(d, p, fuel)
         IN  IF r.st # "Ok" THEN r
             ELSE also(skip_items(d, r.pos, i + 1, n, r.fuel), r.acc)

\* lib.rs:403..411: loop { peek; break on 0xff; self.skip()? }; pos += 1
skip_indefinite(d, p, fuel) ==
    IF ~(p < Len(d)) THEN fueled(Err("UnexpectedEnd", p, {}), fuel)
    ELSE IF d[p + 1] = 255 THEN fueled(Ok(p + 1, <<>>, {p}), fuel)
    ELSE LET r == skip_rec(d, p, fuel)
         IN  IF r.st # "Ok" THEN also(r, {p})
             ELSE also(skip_indefinite(d, r.pos, r.fuel), r.acc \cup {p})

\* lib.rs:369
skip_rec(d, p, fuel) ==
    LET h   == read_byte(d, p)
        maj == h.val \div 32
        ai  == h.val % 32
        skip_len == CASE ai <= 23 -> 0
                      [] ai = 24 -> 1
                      [] ai = 25 -> 2
                      [] ai = 26 -> 4
                      [] ai = 27 -> 8
                      [] OTHER   -> 0
        l   == IF ai <= 23 THEN Ok(h.pos, as_uint(<<ai>>, 8), h.acc)
               ELSE IF ai = 24 THEN also(read_byte_u64(d, h.pos), h.acc)
               ELSE IF ai = 25 THEN also(as_u64(read_u16_raw(d, h.pos)), h.acc)
               ELSE IF ai = 26 THEN also(as_u64(read_u32_raw(d, h.pos)), h.acc)
               ELSE also(as_u64(read_u64_raw(d, h.pos)), h.acc)
        s   == uadd(uint_of(l.pos, 8), l.val)
        m   == uadd(l.val, l.val)
        f   == fuel - 1
    IN  IF fuel = 0 THEN fueled(Err("NoReturn", p, {}), 0)
        ELSE IF h.st # "Ok" THEN fueled(h, f)
        ELSE IF maj = 7 THEN
            IF h.pos + skip_len > Len(d) THEN fueled(Err("UnexpectedEnd", h.pos, h.acc), f)
            ELSE fueled(Ok(h.pos + skip_len, <<>>, h.acc), f)
        ELSE IF ai = 31 THEN also(skip_indefinite(d, h.pos, f), h.acc)
        ELSE IF ai > 27 THEN fueled(Err("InvalidData", h.pos, h.acc), f)
        ELSE IF l.st # "Ok" THEN fueled(l, f)
        ELSE IF maj \in {0, 1} THEN fueled(Ok(l.pos, <<>>, l.acc), f)
        ELSE IF maj \in {2, 3} THEN
            IF s.ovf /\ overflow_checks THEN fueled(Err("Panic", l.pos, l.acc), f)
            ELSE IF ugt(s.val, uint_of(Len(d), 8)) THEN
                fueled(Err("UnexpectedEnd", l.pos, l.acc), f)
            ELSE fueled(Ok(nat_of(s.val), <<>>, l.acc), f)
        ELSE IF maj = 4 THEN also(skip_items(d, l.pos, 0, l.val, f), l.acc)
        ELSE IF maj = 5 THEN
            IF m.ovf /\ overflow_checks THEN fueled(Err("Panic", l.pos, l.acc), f)
            ELSE also(skip_items(d, l.pos, 0, m.val, f), l.acc)
        ELSE also(skip_rec(d, l.pos, f), l.acc)

\* skip that takes a tag header for a whole item
skip_tag_only(d, p) ==
    LET h == read_byte(d, p)
        r == skip_rec(d, p, SkipFuel)
    IN  IF h.st = "Ok" /\ h.val \div 32 = 6 /\ h.val % 32 <= 23 THEN Ok(h.pos, <<>>, h.acc)
        ELSE [st |-> r.st, pos |-> r.pos, val |-> r.val, acc |-> r.acc]

\* skip that ends an item of indefinite length at the first 0xff byte
skip_first_break(d, p) ==
    LET h == read_byte(d, p)
        r == skip_rec(d, p, SkipFuel)
        B == {i \in (p + 1)..(Len(d) - 1) : d[i + 1] = 255}
        b == CHOOSE i \in B : \A j \in B : i <= j
    IN  IF h.st = "Ok" /\ h.val % 32 = 31 /\ h.val \div 32 \in 2..5 /\ B # {}
        THEN Ok(b + 1, <<>>, p..b)
        ELSE [st |-> r.st, pos |-> r.pos, val |-> r.val, acc |-> r.acc]

\* Reader::skip as called from outside
skip(d, p) ==
    LET r == skip_rec(d, p, SkipFuel)
    IN  [st |-> r.st, pos |-> r.pos, val |-> r.val, acc |-> r.acc]

----------------------------------------------------------------------------
(* Dispatch by method name *)

\* the outcome of the Reader call op on (d, p)
apply(op, d, p) ==
    CASE op = "read_bool"         -> read_bool(d, p)
      [] op = "read_u8"           -> read_u8(d, p)
      [] op = "read_u16"          -> read_u16(d, p)
      [] op = "read_u32"          -> read_u32(d, p)
      [] op = "read_u64"          -> read_u64(d, p)
      [] op = "read_i8"           -> read_i8(d, p)
      [] op = "read_i16"          -> read_i16(d, p)
      [] op = "read_i32"          -> read_i32(d, p)
      [] op = "read_i64"          -> read_i64(d, p)
      [] op = "read_uvarint"      -> read_uvarint(d, p)
      [] op = "read_ivarint"      -> read_ivarint(d, p)
      [] op = "read_f16"          -> read_f16(d, p)
      [] op = "read_f32"          -> read_f32(d, p)
      [] op = "read_f64"          -> read_f64(d, p)
      [] op = "read_string"       -> read_string(d, p)
      [] op = "read_bytes"        -> read_bytes(d, p)
      [] op = "read_array_header" -> read_array_header(d, p)
      [] op = "read_byte"         -> read_byte(d, p)
      [] op = "peek_byte"         -> peek_byte(d, p)
      [] op = "skip"              -> skip(d, p)

\* the Reader method that reads back what a Writer method wrote; write_null
\* and write_tag_header have none
reader_of(w) ==
    CASE w = "write_bool"         -> "read_bool"
      [] w = "write_u8"           -> "read_u8"
      [] w = "write_u16"          -> "read_u16"
      [] w = "write_u32"          -> "read_u32"
      [] w = "write_u64"          -> "read_u64"
      [] w = "write_i8"           -> "read_i8"
      [] w = "write_i16"          -> "read_i16"
      [] w = "write_i32"          -> "read_i32"
      [] w = "write_i64"          -> "read_i64"
      [] w = "write_uvarint"      -> "read_uvarint"
      [] w = "write_ivarint"      -> "read_ivarint"
      [] w = "write_f16"          -> "read_f16"
      [] w = "write_f32"          -> "read_f32"
      [] w = "write_f64"          -> "read_f64"
      [] w = "write_string"       -> "read_string"
      [] w = "write_bytes"        -> "read_bytes"
      [] w = "write_array_header" -> "read_array_header"
      [] w = "write_byte"         -> "read_byte"
      [] OTHER                    -> "none"

----------------------------------------------------------------------------
(* Inputs *)

\* a small integer n (|n| below 2^23) as a w-byte signed value
int_of(n, w) == IF n >= 0 THEN uint_of(n, w) ELSE minus1_minus(uint_of(-1 - n, w))

Small == {0, 23, 24, 255, 256, 65535, 65536}

U8Vals == {uint_of(n, 1) : n \in {0, 23, 24, 255}}

U16Vals == {uint_of(n, 2) : n \in {0, 23, 24, 255, 256, 65535}}

\* ... and 2^32 - 1
U32Vals == {uint_of(n, 4) : n \in Small} \cup {<<255, 255, 255, 255>>}

\* ... and 2^32 - 1, 2^32, 2^63 - 1, 2^63, 2^64 - 1
U64Vals ==
    {uint_of(n, 8) : n \in Small} \cup
    { <<255, 255, 255, 255, 0, 0, 0, 0>>, <<0, 0, 0, 0, 1, 0, 0, 0>>,
      <<255, 255, 255, 255, 255, 255, 255, 127>>, <<0, 0, 0, 0, 0, 0, 0, 128>>,
      <<255, 255, 255, 255, 255, 255, 255, 255>> }

I8Vals == {int_of(n, 1) : n \in {0, 23, 24, 127, -1, -24, -25, -128}}

I16Vals == {int_of(n, 2) : n \in {0, 23, 24, 255, 256, 32767, -1, -24, -25, -256, -257, -32768}}

\* ... and 2^31 - 1, -2^31
I32Vals ==
    {int_of(n, 4) : n \in Small \cup {-1, -24, -25, -256, -257, -65536, -65537}} \cup
    { <<255, 255, 255, 127>>, <<0, 0, 0, 128>> }

\* ... and 2^32 - 1, 2^32, 2^63 - 1, -2^32, -2^32 - 1, -2^63
I64Vals ==
    {int_of(n, 8) : n \in Small \cup {-1, -24, -25, -256, -257, -65536, -65537}} \cup
    { <<255, 255, 255, 255, 0, 0, 0, 0>>, <<0, 0, 0, 0, 1, 0, 0, 0>>,
      <<255, 255, 255, 255, 255, 255, 255, 127>>,
      <<0, 0, 0, 0, 255, 255, 255, 255>>, <<255, 255, 255, 255, 254, 255, 255, 255>>,
      <<0, 0, 0, 0, 0, 0, 0, 128>> }

\* f32 patterns: 1.5, 65504.0, 2^-14, 2^-15, 2^-24, 1.0e10, +inf, a NaN
F32Vals ==
    { <<0, 0, 192, 63>>, <<0, 224, 127, 71>>, <<0, 0, 128, 56>>, <<0, 0, 0, 56>>,
      <<0, 0, 128, 51>>, <<249, 2, 21, 80>>, <<0, 0, 128, 127>>, <<1, 0, 192, 127>> }

\* f64 patterns: 1.5, -0.0
F64Vals == { <<0, 0, 0, 0, 0, 0, 248, 63>>, <<0, 0, 0, 0, 0, 0, 0, 128>> }

\* byte strings of the lengths at which the header grows: 0, 1, 23, 24, 255, 256
Filled(n, x) == [i \in 1..n |-> x]

TextVals == {Filled(n, 97) : n \in {0, 1, 23, 24, 255, 256}} \cup {<<195, 169>>}

BlobVals == {Filled(n, 255) : n \in {0, 1, 23, 24, 255, 256}}

\* the narrow sets used where several calls are combined
FewBool == {TRUE}
FewU8 == {uint_of(255, 1)}
FewU16 == {uint_of(1000, 2)}
FewU32 == {uint_of(65536, 4)}
FewU64 == {<<0, 0, 0, 0, 1, 0, 0, 0>>}
FewI8 == {int_of(-128, 1)}
FewI16 == {int_of(-1000, 2)}
FewI32 == {int_of(-65537, 4)}
FewI64 == {<<0, 0, 0, 0, 0, 0, 0, 128>>}
FewUvarint == {uint_of(24, 8)}
FewIvarint == {int_of(-42, 8)}
FewF16 == {<<0, 0, 192, 63>>}
FewF32 == {<<249, 2, 21, 80>>}
FewF64 == {<<0, 0, 0, 0, 0, 0, 248, 63>>}
FewText == {<<195, 169>>}
FewBlob == {<<1, 2, 3>>}
FewCounts == {uint_of(1, 8), uint_of(2, 8)}
FewTags == {uint_of(1, 8)}
\* map headers: a map of one pair
FewRaw == {161}
\* headers of indefinite length (byte string, array, map) and the break byte
FewOpen == {95, 159, 191, 255}

----------------------------------------------------------------------------
(* State machine *)

MaxCalls == 3

MaxItems == 5

MaxLen == 3

NoCall == [op |-> "new", st |-> "Ok", val |-> <<>>, from |-> 0, acc |-> {}, k |-> 0]

\* Writer::new()
InitWriter ==
    /\ overflow_checks \in BOOLEAN
    /\ phase = "write"
    /\ buf = <<>>
    /\ calls = <<>>
    /\ ends = <<>>
    /\ data = <<>>
    /\ pos = 0
    /\ done = 0
    /\ last = NoCall

\* one Writer call op(v), after which the buffer is b, while fewer than n
\* calls were made.  write_f16 unwinds when the conversion panics.
Write(op, v, b, n) ==
    /\ phase = "write"
    /\ Len(calls) < n
    /\ buf' = b
    /\ calls' = Append(calls, [op |-> op, v |-> v])
    /\ ends' = Append(ends, Len(b))
    /\ phase' = IF op = "write_f16" /\ f32_to_f16_bits(v).st = "Panic"
                THEN "panic" ELSE "write"
    /\ UNCHANGED <<overflow_checks, data, pos, done, last>>

WriteBool(S, n) == \E v \in S : Write("write_bool", v, write_bool(buf, v), n)
WriteNull(n) == Write("write_null", <<>>, write_null(buf), n)
WriteU8(S, n) == \E v \in S : Write("write_u8", v, write_u8(buf, v), n)
WriteU16(S, n) == \E v \in S : Write("write_u16", v, write_u16(buf, v), n)
WriteU32(S, n) == \E v \in S : Write("write_u32", v, write_u32(buf, v), n)
WriteU64(S, n) == \E v \in S : Write("write_u64", v, write_u64(buf, v), n)
WriteI8(S, n) == \E v \in S : Write("write_i8", v, write_i8(buf, v), n)
WriteI16(S, n) == \E v \in S : Write("write_i16", v, write_i16(buf, v), n)
WriteI32(S, n) == \E v \in S : Write("write_i32", v, write_i32(buf, v), n)
WriteI64(S, n) == \E v \in S : Write("write_i64", v, write_i64(buf, v), n)
WriteUvarint(S, n) == \E v \in S : Write("write_uvarint", v, write_uvarint(buf, v), n)
WriteIvarint(S, n) == \E v \in S : Write("write_ivarint", v, write_ivarint(buf, v), n)
WriteF16(S, n) == \E v \in S : Write("write_f16", v, write_f16(buf, v), n)
WriteF32(S, n) == \E v \in S : Write("write_f32", v, write_f32(buf, v), n)
WriteF64(S, n) == \E v \in S : Write("write_f64", v, write_f64(buf, v), n)
WriteString(S, n) == \E v \in S : Write("write_string", v, write_string(buf, v), n)
WriteBytes(S, n) == \E v \in S : Write("write_bytes", v, write_bytes(buf, v), n)
WriteArrayHeader(S, n) == \E v \in S : Write("write_array_header", v, write_array_header(buf, v), n)
WriteTagHeader(S, n) == \E v \in S : Write("write_tag_header", v, write_tag_header(buf, v), n)
WriteByte(S, n) == \E v \in S : Write("write_byte", v, write_byte(buf, v), n)

\* Writer::finish() and Reader::new(&data) over the bytes it returned
Finish ==
    /\ phase = "write"
    /\ phase' = "read"
    /\ data' = buf
    /\ pos' = 0
    /\ UNCHANGED <<overflow_checks, buf, calls, ends, done, last>>

\* one Reader call op with outcome r; d is the number of Writer calls read
\* back if it succeeds.  A call that panics or does not return ends the
\* Reader's use.
Call(op, r, d) ==
    /\ phase = "read"
    /\ pos' = r.pos
    /\ last' = [op |-> op, st |-> r.st, val |-> r.val, from |-> pos,
                acc |-> r.acc, k |-> done]
    /\ done' = IF r.st = "Ok" THEN d ELSE done
    /\ phase' = CASE r.st = "Panic" -> "panic"
                  [] r.st = "NoReturn" -> "hung"
                  [] OTHER -> "read"
    /\ UNCHANGED <<overflow_checks, buf, calls, ends, data>>


ReadBool(g, d) == g /\ Call("read_bool", read_bool(data, pos), d)
ReadU8(g, d) == g /\ Call("read_u8", read_u8(data, pos), d)
ReadU16(g, d) == g /\ Call("read_u16", read_u16(data, pos), d)
ReadU32(g, d) == g /\ Call("read_u32", read_u32(data, pos), d)
ReadU64(g, d) == g /\ Call("read_u64", read_u64(data, pos), d)
ReadI8(g, d) == g /\ Call("read_i8", read_i8(data, pos), d)
ReadI16(g, d) == g /\ Call("read_i16", read_i16(data, pos), d)
ReadI32(g, d) == g /\ Call("read_i32", read_i32(data, pos), d)
ReadI64(g, d) == g /\ Call("read_i64", read_i64(data, pos), d)
ReadUvarint(g, d) == g /\ Call("read_uvarint", read_uvarint(data, pos), d)
ReadIvarint(g, d) == g /\ Call("read_ivarint", read_ivarint(data, pos), d)
ReadF16(g, d) == g /\ Call("read_f16", read_f16(data, pos), d)
ReadF32(g, d) == g /\ Call("read_f32", read_f32(data, pos), d)
ReadF64(g, d) == g /\ Call("read_f64", read_f64(data, pos), d)
ReadString(g, d) == g /\ Call("read_string", read_string(data, pos), d)
ReadBytes(g, d) == g /\ Call("read_bytes", read_bytes(data, pos), d)
ReadArrayHeader(g, d) == g /\ Call("read_array_header", read_array_header(data, pos), d)
ReadByte(g, d) == g /\ Call("read_byte", read_byte(data, pos), d)
PeekByte(g, d) == g /\ Call("peek_byte", peek_byte(data, pos), d)
Skip(g, d) == g /\ Call("skip", skip(data, pos), d)

\* the Reader is new: no call was made on it yet
Fresh == last.op = "new"

----------------------------------------------------------------------------
(* SpecOne: one value is written, the Writer is finished, and one Reader    *)
(* method, the matching one or any other, is called on the new Reader.      *)

NextOne ==
    \/ WriteBool(BOOLEAN, 1) \/ WriteNull(1)
    \/ WriteU8(U8Vals, 1) \/ WriteU16(U16Vals, 1)
    \/ WriteU32(U32Vals, 1) \/ WriteU64(U64Vals, 1)
    \/ WriteI8(I8Vals, 1) \/ WriteI16(I16Vals, 1)
    \/ WriteI32(I32Vals, 1) \/ WriteI64(I64Vals, 1)
    \/ WriteUvarint(U64Vals, 1) \/ WriteIvarint(I64Vals, 1)
    \/ WriteF16(F32Vals, 1) \/ WriteF32(F32Vals, 1) \/ WriteF64(F64Vals, 1)
    \/ WriteString(TextVals, 1) \/ WriteBytes(BlobVals, 1)
    \/ WriteArrayHeader(U64Vals, 1) \/ WriteTagHeader(U64Vals, 1)
    \/ WriteByte({0, 255}, 1)
    \/ Finish
    \/ ReadBool(Fresh, 1) \/ ReadU8(Fresh, 1) \/ ReadU16(Fresh, 1)
    \/ ReadU32(Fresh, 1) \/ ReadU64(Fresh, 1)
    \/ ReadI8(Fresh, 1) \/ ReadI16(Fresh, 1) \/ ReadI32(Fresh, 1) \/ ReadI64(Fresh, 1)
    \/ ReadUvarint(Fresh, 1) \/ ReadIvarint(Fresh, 1)
    \/ ReadF16(Fresh, 1) \/ ReadF32(Fresh, 1) \/ ReadF64(Fresh, 1)
    \/ ReadString(Fresh, 1) \/ ReadBytes(Fresh, 1) \/ ReadArrayHeader(Fresh, 1)
    \/ ReadByte(Fresh, 1) \/ PeekByte(Fresh, 1) \/ Skip(Fresh, 1)

SpecOne == InitWriter /\ [][NextOne]_vars

----------------------------------------------------------------------------
(* Claims on one written value (SpecOne) *)

FixedUnsigned == {"u8", "u16", "u32", "u64"}
FixedSigned == {"i8", "i16", "i32", "i64"}

\* the first Writer call was method w
Wrote(w) == calls # <<>> /\ calls[1].op = w

\* the Reader was called once, with method r
Did(r) == last.op = r

\* the width in bytes of a fixed-width type
width(t) == CASE t \in {"u8", "i8"} -> 1
              [] t \in {"u16", "i16"} -> 2
              [] t \in {"u32", "i32"} -> 4
              [] t \in {"u64", "i64"} -> 8

IntegerPairs ==
    {<<"write_u8", "read_u8">>, <<"write_u16", "read_u16">>, <<"write_u32", "read_u32">>,
     <<"write_u64", "read_u64">>, <<"write_i8", "read_i8">>, <<"write_i16", "read_i16">>,
     <<"write_i32", "read_i32">>, <<"write_i64", "read_i64">>,
     <<"write_uvarint", "read_uvarint">>, <<"write_ivarint", "read_ivarint">>}

\* C1: for each fixed-width pair and both varint pairs and every value v of
\* the type, the matching read on a Reader over the bytes of write(v)
\* returns Ok(v).
C1_IntegerRoundTrip ==
    \A pr \in IntegerPairs :
        Wrote(pr[1]) /\ Did(pr[2]) => last.st = "Ok" /\ last.val = calls[1].v

\* the minimum of i64 was written with write_ivarint and read back
C1_Witness ==
    /\ Wrote("write_ivarint") /\ Did("read_ivarint")
    /\ calls[1].v = <<0, 0, 0, 0, 0, 0, 0, 128>>
    /\ last.st = "Ok" /\ last.val = <<0, 0, 0, 0, 0, 0, 0, 128>>

\* an unsigned 64-bit v is a value of the w-byte unsigned type
in_unsigned(v, w) == \A i \in (w + 1)..8 : v[i] = 0

\* a signed 64-bit v is a value of the w-byte signed type
in_signed(v, w) ==
    IF is_nonneg(v) THEN v[w] < 128 /\ \A i \in (w + 1)..8 : v[i] = 0
    ELSE v[w] >= 128 /\ \A i \in (w + 1)..8 : v[i] = 255

\* v of a signed type as an i64
sign_extend(v) ==
    [i \in 1..8 |-> IF i <= Len(v) THEN v[i] ELSE IF is_nonneg(v) THEN 0 ELSE 255]

\* v for v >= 0, -1 - v for v < 0
magnitude(v) == IF is_nonneg(v) THEN v ELSE minus1_minus(v)

\* the largest magnitude whose minimal encoding is shorter than 1 + w bytes
below(w) == CASE w = 1 -> uint_of(23, 8)
              [] w = 2 -> uint_of(255, 8)
              [] w = 4 -> uint_of(65535, 8)
              [] w = 8 -> <<255, 255, 255, 255, 0, 0, 0, 0>>

\* C5 as claimed: a fixed-width reader applied to write_uvarint(v) /
\* write_ivarint(v), v any value of its type, returns InvalidData, and the
\* varint readers applied to a fixed-width encoding fail.
C5_AsClaimed ==
    /\ \A t \in FixedUnsigned :
         Wrote("write_uvarint") /\ Did("read_" \o t) /\ in_unsigned(calls[1].v, width(t))
            => last.st = "InvalidData"
    /\ \A t \in FixedSigned :
         Wrote("write_ivarint") /\ Did("read_" \o t) /\ in_signed(calls[1].v, width(t))
            => last.st = "InvalidData"
    /\ \A t \in FixedUnsigned : Wrote("write_" \o t) /\ Did("read_uvarint") => last.st # "Ok"
    /\ \A t \in FixedSigned : Wrote("write_" \o t) /\ Did("read_ivarint") => last.st # "Ok"

\* C5, amended: a fixed-width reader applied to the minimal encoding of a
\* value v of its type returns InvalidData exactly when the magnitude of v is
\* too small for the minimal encoding to have the reader's width (at most 23,
\* 255, 65535, 2^32 - 1 for 8, 16, 32, 64 bits); above that the two encodings
\* are the same bytes and it returns Ok(v).  The varint readers accept every
\* fixed-width encoding of the same signedness and return Ok(v).
C5_FixedVersusVarint ==
    /\ \A t \in FixedUnsigned :
         Wrote("write_uvarint") /\ Did("read_" \o t) /\ in_unsigned(calls[1].v, width(t))
            => IF ule(calls[1].v, below(width(t))) THEN last.st = "InvalidData"
               ELSE last.st = "Ok" /\ last.val = as_uint(calls[1].v, width(t))
    /\ \A t \in FixedSigned :
         Wrote("write_ivarint") /\ Did("read_" \o t) /\ in_signed(calls[1].v, width(t))
            => IF ule(magnitude(calls[1].v), below(width(t))) THEN last.st = "InvalidData"
               ELSE last.st = "Ok" /\ last.val = as_uint(calls[1].v, width(t))
    /\ \A t \in FixedUnsigned :
         Wrote("write_" \o t) /\ Did("read_uvarint")
            => last.st = "Ok" /\ last.val = as_uint(calls[1].v, 8)
    /\ \A t \in FixedSigned :
         Wrote("write_" \o t) /\ Did("read_ivarint")
            => last.st = "Ok" /\ last.val = sign_extend(calls[1].v)

\* read_u32 rejected the one-byte minimal encoding of 23
C5_Witness ==
    /\ Wrote("write_uvarint") /\ Did("read_u32")
    /\ calls[1].v = uint_of(23, 8)
    /\ last.st = "InvalidData"

\* the number of bytes the minimal-length rule gives a magnitude n
minimal_len(n) ==
    IF ule(n, uint_of(23, 8)) THEN 1
    ELSE IF ule(n, uint_of(255, 8)) THEN 2
    ELSE IF ule(n, uint_of(65535, 8)) THEN 3
    ELSE IF ule(n, <<255, 255, 255, 255, 0, 0, 0, 0>>) THEN 5
    ELSE 9

\* the bytes b[2..] are n's low Len(b) - 1 bytes, most significant first
big_endian(b, n) == \A j \in 1..(Len(b) - 1) : b[Len(b) + 1 - j] = n[j]

\* C6: write_uvarint(n) appends 1, 2, 3, 5 or 9 bytes by the range of n, the
\* payload big-endian; write_ivarint(v) appends as many bytes as
\* write_uvarint of v or of -1 - v; the same rule gives the header length of
\* write_string, write_bytes, write_array_header and write_tag_header.
C6_MinimalLength ==
    /\ Wrote("write_uvarint") =>
         /\ Len(buf) = minimal_len(calls[1].v)
         /\ Len(buf) > 1 => big_endian(buf, calls[1].v)
    /\ Wrote("write_ivarint") => Len(buf) = minimal_len(magnitude(calls[1].v))
    /\ \A w \in {"write_string", "write_bytes"} :
         Wrote(w) => Len(buf) - Len(calls[1].v) = minimal_len(uint_of(Len(calls[1].v), 8))
    /\ \A w \in {"write_array_header", "write_tag_header"} :
         Wrote(w) => Len(buf) = minimal_len(calls[1].v)

\* write_uvarint(65536) appended five bytes
C6_Witness ==
    /\ Wrote("write_uvarint")
    /\ calls[1].v = uint_of(65536, 8)
    /\ Len(buf) = 5

----------------------------------------------------------------------------
(* SpecSeq: up to MaxCalls values are written, the Writer is finished, and  *)
(* the Reader reads them back in order, each with the matching method or    *)
(* with skip.                                                               *)

\* the number of items that follow the header written by c and belong to it
children(c) ==
    CASE c.op = "write_array_header" -> nat_of(c.v)
      [] c.op = "write_tag_header" -> 1
      [] c.op = "write_byte" /\ c.v \in 160..183 -> 2 * (c.v - 160)
      [] OTHER -> 0

\* the call wrote a header of indefinite length / a break byte
is_indefinite(c) == c.op = "write_byte" /\ c.v \in {95, 127, 159, 191}
is_break(c) == c.op = "write_byte" /\ c.v = 255

\* item_after(cs, i): the index of the call after the item that starts at
\* call i of cs; 0 when cs ends before the item does, -1 when a break byte
\* stands where an item should start
RECURSIVE item_after(_, _)
RECURSIVE items_after(_, _, _)
RECURSIVE until_break(_, _)

\* ... after the k items that start at call i
items_after(cs, i, k) ==
    IF k = 0 THEN i
    ELSE LET j == item_after(cs, i)
         IN  IF j <= 0 THEN j ELSE items_after(cs, j, k - 1)

\* ... after the break byte that ends the items starting at call i
until_break(cs, i) ==
    IF i > Len(cs) THEN 0
    ELSE IF is_break(cs[i]) THEN i + 1
    ELSE LET j == item_after(cs, i)
         IN  IF j <= 0 THEN j ELSE until_break(cs, j)

item_after(cs, i) ==
    IF i > Len(cs) THEN 0
    ELSE IF is_break(cs[i]) THEN -1
    ELSE IF is_indefinite(cs[i]) THEN until_break(cs, i + 1)
    ELSE items_after(cs, i + 1, children(cs[i]))

\* the item that starts at call i is whole
whole(cs, i) == item_after(cs, i) > 0

\* the next value to read back was written by a method that r reads
InOrder(r) ==
    /\ done < Len(calls)
    /\ last.st = "Ok"
    /\ reader_of(calls[done + 1].op) = r

\* there is a next value
Pending == done < Len(calls) /\ last.st = "Ok"

\* the number of calls read back once the item at the cursor is skipped
Skipped ==
    IF Pending /\ whole(calls, done + 1) THEN item_after(calls, done + 1) - 1
    ELSE Len(calls)

NextSeq ==
    \/ WriteBool(FewBool, MaxCalls) \/ WriteNull(MaxCalls)
    \/ WriteU8(FewU8, MaxCalls) \/ WriteU16(FewU16, MaxCalls)
    \/ WriteU32(FewU32, MaxCalls) \/ WriteU64(FewU64, MaxCalls)
    \/ WriteI8(FewI8, MaxCalls) \/ WriteI16(FewI16, MaxCalls)
    \/ WriteI32(FewI32, MaxCalls) \/ WriteI64(FewI64, MaxCalls)
    \/ WriteUvarint(FewUvarint, MaxCalls) \/ WriteIvarint(FewIvarint, MaxCalls)
    \/ WriteF16(FewF16, MaxCalls) \/ WriteF32(FewF32, MaxCalls)
    \/ WriteF64(FewF64, MaxCalls)
    \/ WriteString(FewText, MaxCalls) \/ WriteBytes(FewBlob, MaxCalls)
    \/ WriteArrayHeader(FewCounts, MaxCalls) \/ WriteTagHeader(FewTags, MaxCalls)
    \/ WriteByte(FewRaw, MaxCalls)
    \/ Finish
    \/ ReadBool(InOrder("read_bool"), done + 1) \/ ReadU8(InOrder("read_u8"), done + 1)
    \/ ReadU16(InOrder("read_u16"), done + 1) \/ ReadU32(InOrder("read_u32"), done + 1)
    \/ ReadU64(InOrder("read_u64"), done + 1)
    \/ ReadI8(InOrder("read_i8"), done + 1) \/ ReadI16(InOrder("read_i16"), done + 1)
    \/ ReadI32(InOrder("read_i32"), done + 1) \/ ReadI64(InOrder("read_i64"), done + 1)
    \/ ReadUvarint(InOrder("read_uvarint"), done + 1)
    \/ ReadIvarint(InOrder("read_ivarint"), done + 1)
    \/ ReadF16(InOrder("read_f16"), done + 1) \/ ReadF32(InOrder("read_f32"), done + 1)
    \/ ReadF64(InOrder("read_f64"), done + 1)
    \/ ReadString(InOrder("read_string"), done + 1)
    \/ ReadBytes(InOrder("read_bytes"), done + 1)
    \/ ReadArrayHeader(InOrder("read_array_header"), done + 1)
    \/ ReadByte(InOrder("read_byte"), done + 1)
    \/ Skip(Pending, Skipped)

SpecSeq == InitWriter /\ [][NextSeq]_vars

----------------------------------------------------------------------------
(* Claims on sequences of written values (SpecSeq) *)

SequenceReaders ==
    {"read_bool", "read_u8", "read_u16", "read_u32", "read_u64", "read_i8", "read_i16",
     "read_i32", "read_i64", "read_uvarint", "read_ivarint", "read_string", "read_bytes",
     "read_array_header"}

\* C2: when the values written by write_bool, the integer writers,
\* write_string, write_bytes and write_array_header are read back in order
\* with the matching methods, the k-th read returns Ok with the k-th written
\* value and leaves pos at the end of the k-th encoding, which for the last
\* one is the end of the data.
C2_SequenceRoundTrip ==
    last.op \in SequenceReaders =>
        LET k == last.k + 1
        IN  /\ last.st = "Ok"
            /\ done = k
            /\ last.val = calls[k].v
            /\ pos = ends[k]
            /\ (k = Len(calls) => pos = Len(data))

\* an array header, a string and a byte string were written and the third
\* read, read_bytes, ended at the end of the data
C2_Witness ==
    /\ Len(calls) = 3
    /\ calls[1].op = "write_array_header" /\ calls[2].op = "write_string"
    /\ calls[3].op = "write_bytes"
    /\ last.op = "read_bytes" /\ last.k = 2 /\ last.val = <<1, 2, 3>>
    /\ done = 3 /\ pos = Len(data)

\* C7: skip called at the start of a whole written item (a scalar, a
\* string, an array header with its items, a tag header with its item, a map
\* header with its pairs), whatever follows the item, returns Ok and leaves
\* pos at the end of the item's last encoding, where the typed reads of the
\* item end.
C7_SkipOneItem ==
    last.op = "skip" /\ whole(calls, last.k + 1) =>
        /\ last.st = "Ok"
        /\ done = item_after(calls, last.k + 1) - 1
        /\ pos = ends[done]

\* a tagged string followed by one more value was skipped, and the cursor
\* is at that value
C7_Witness ==
    /\ Len(calls) = 3
    /\ calls[1].op = "write_tag_header" /\ calls[2].op = "write_string"
    /\ last.op = "skip" /\ last.k = 0 /\ last.st = "Ok"
    /\ done = 2 /\ pos = ends[2] /\ pos < Len(data)

----------------------------------------------------------------------------
(* SpecIndef: up to MaxItems headers, values and break bytes are written,   *)
(* the Writer is finished, and the Reader skips item after item.            *)

NextIndef ==
    \/ WriteByte(FewOpen, MaxItems)
    \/ WriteU8(FewU8, MaxItems)
    \/ WriteArrayHeader({uint_of(1, 8)}, MaxItems)
    \/ WriteTagHeader(FewTags, MaxItems)
    \/ Finish
    \/ Skip(Pending, Skipped)

SpecIndef == InitWriter /\ [][NextIndef]_vars

\* C8: skip called at a header of indefinite length that is followed by
\* whole items, definite or indefinite, and the break byte, returns Ok with
\* pos right after that break byte, the one that ends this item and no
\* nested one; when the data ends before the item does, it returns
\* UnexpectedEnd.
C8_SkipIndefinite ==
    last.op = "skip" /\ is_indefinite(calls[last.k + 1]) =>
        LET j == item_after(calls, last.k + 1)
        IN  /\ j > 0 => /\ last.st = "Ok"
                        /\ pos = ends[j - 1]
                        /\ is_break(calls[j - 1])
            /\ j = 0 => last.st = "UnexpectedEnd"

\* an indefinite array holding an empty indefinite array and the value 255
\* (payload byte 0xff) was skipped up to its own break byte
C8_Witness ==
    /\ Len(calls) = 5
    /\ calls[1].op = "write_byte" /\ calls[1].v = 159
    /\ calls[2].op = "write_byte" /\ calls[2].v = 159
    /\ calls[3].op = "write_byte" /\ calls[3].v = 255
    /\ calls[4].op = "write_u8"
    /\ calls[5].op = "write_byte" /\ calls[5].v = 255
    /\ last.op = "skip" /\ last.k = 0 /\ last.st = "Ok"
    /\ pos = 6 /\ pos = Len(data)

----------------------------------------------------------------------------
(* SpecBytes: a Reader over arbitrary bytes, on which any methods are       *)
(* called in any order, also after calls that returned an error.            *)

Alphabet == {0, 24, 97, 129, 159, 255}

\* every header byte alone
Singles == {<<b>> : b \in 0..255}

\* every header with a 1, 2, 4 or 8 byte argument of all zeros or all ones
Wide ==
    {<<t[1] * 32 + t[2]>> \o Filled(2 ^ (t[2] - 24), t[3]) :
        t \in (0..7) \X (24..27) \X {0, 255}}

\* the same with the argument cut short
Cut == UNION {{SubSeq(w, 1, n) : n \in 2..(Len(w) - 1)} : w \in Wide}

Crafted ==
    { \* (text and byte) strings that declare 2^64 - 2 and 2^64 - 1 bytes,
      \* at offsets 0 and 1
      <<91, 255, 255, 255, 255, 255, 255, 255, 254>>,
      <<123, 255, 255, 255, 255, 255, 255, 255, 254>>,
      <<0, 91, 255, 255, 255, 255, 255, 255, 255, 255>>,
      <<0, 123, 255, 255, 255, 255, 255, 255, 255, 255>>,
      \* maps that declare 2^63 and 2^63 + 1 pairs
      <<187, 128, 0, 0, 0, 0, 0, 0, 0>>,
      <<187, 128, 0, 0, 0, 0, 0, 0, 1, 0, 0>>,
      \* arrays, definite and indefinite, holding such a string
      <<130, 91, 255, 255, 255, 255, 255, 255, 255, 254>>,
      <<159, 91, 255, 255, 255, 255, 255, 255, 255, 247>>,
      <<159, 91, 255, 255, 255, 255, 255, 255, 255, 255, 255>>,
      \* strings: valid and invalid UTF-8, a byte string, a long header
      <<98, 195, 169>>, <<98, 195, 40>>, <<67, 1, 2, 3>>, <<120, 1, 97, 0>>,
      \* nested items
      <<159, 159, 255, 255>>, <<159, 129, 0, 255, 0>>, <<191, 97, 97, 159, 255, 255>>,
      <<130, 0, 193, 0>>, <<161, 0, 129, 0, 245>>,
      \* scalars followed by more
      <<245, 244, 246>>, <<24, 255, 56, 255>>, <<25, 1, 0, 57, 1, 0>>,
      <<249, 62, 0, 0>>, <<250, 63, 192, 0, 0, 0>> }

Inputs ==
    UNION {[1..n -> Alphabet] : n \in 0..MaxLen} \cup Singles \cup Wide \cup Cut \cup Crafted

\* Reader::new(data)
InitReader ==
    /\ overflow_checks \in BOOLEAN
    /\ phase = "read"
    /\ buf = <<>>
    /\ calls = <<>>
    /\ ends = <<>>
    /\ data \in Inputs
    /\ pos = 0
    /\ done = 0
    /\ last = NoCall

NextBytes ==
    \/ ReadBool(TRUE, 0) \/ ReadU8(TRUE, 0) \/ ReadU16(TRUE, 0)
    \/ ReadU32(TRUE, 0) \/ ReadU64(TRUE, 0)
    \/ ReadI8(TRUE, 0) \/ ReadI16(TRUE, 0) \/ ReadI32(TRUE, 0) \/ ReadI64(TRUE, 0)
    \/ ReadUvarint(TRUE, 0) \/ ReadIvarint(TRUE, 0)
    \/ ReadF16(TRUE, 0) \/ ReadF32(TRUE, 0) \/ ReadF64(TRUE, 0)
    \/ ReadString(TRUE, 0) \/ ReadBytes(TRUE, 0) \/ ReadArrayHeader(TRUE, 0)
    \/ ReadByte(TRUE, 0) \/ PeekByte(TRUE, 0) \/ Skip(TRUE, 0)

SpecBytes == InitReader /\ [][NextBytes]_vars

----------------------------------------------------------------------------
(* Claims on arbitrary bytes (SpecBytes) *)

\* C3: whatever methods were called, with whatever outcomes, pos is between
\* 0 and the length of the data, and every index of the data that the last
\* call used is below the length.
C3_CursorBounds ==
    /\ 0 <= pos /\ pos <= Len(data)
    /\ \A i \in last.acc : 0 <= i /\ i < Len(data)

\* after an earlier call, a skip ran into the end of the data inside an
\* indefinite-length item: it used the last byte and failed with pos at the end
C3_Witness ==
    /\ last.op = "skip" /\ last.st = "UnexpectedEnd"
    /\ last.from > 0
    /\ (Len(data) - 1) \in last.acc
    /\ pos = Len(data)

LengthReaders == {"read_string", "read_bytes", "skip"}

\* C4 as claimed: read_string, read_bytes and skip never panic, never fail
\* to return, and never leave pos before the place where the call started
\* or where its header ended.
C4_AsClaimed ==
    last.op \in LengthReaders =>
        /\ last.st \notin {"Panic", "NoReturn"}
        /\ pos >= last.from
        /\ last.st = "Ok" => \A i \in last.acc : i < pos

Decoders ==
    {"read_bool", "read_u8", "read_u16", "read_u32", "read_u64", "read_i8", "read_i16",
     "read_i32", "read_i64", "read_uvarint", "read_ivarint", "read_f16", "read_f32",
     "read_f64", "read_string", "read_bytes", "read_array_header", "read_byte", "skip"}

\* the number of bytes, from where the last call started, that it consumed
\* or looked at
extent ==
    LET E == {pos} \cup {i + 1 : i \in last.acc}
    IN  (CHOOSE m \in E : \A e \in E : e <= m) - last.from

\* C9: when a typed read or skip succeeds on a byte sequence, all of which
\* it consumes, the same call on each strict prefix of that sequence, the
\* empty one included, returns UnexpectedEnd.
C9_TruncatedInput ==
    last.op \in Decoders /\ last.st = "Ok" =>
        \A n \in 0..(extent - 1) :
            apply(last.op, SubSeq(data, last.from + 1, last.from + n), 0).st = "UnexpectedEnd"

\* read_string returned a three-byte encoding, which has three strict
\* prefixes
C9_Witness ==
    /\ last.op = "read_string" /\ last.st = "Ok"
    /\ extent = 3
    /\ apply("read_string", SubSeq(data, last.from + 1, last.from + 2), 0).st = "UnexpectedEnd"

Failed == last.st \in {"UnexpectedEnd", "InvalidData"}

\* C10 as claimed: a decode method that returns an error leaves pos where it
\* was before the call.
C10_AsClaimed ==
    last.op \in Decoders /\ Failed => pos = last.from

\* C10, amended: a typed read that returns an error leaves pos unchanged
\* only when there was no byte left to read; otherwise the header byte, and
\* the length argument of a string or array header, stay consumed and pos
\* is beyond where it was.  After a failed skip pos is within the data, and
\* unchanged when there was no byte left.
C10_FailedDecode ==
    /\ last.op \in Decoders \ {"skip"} /\ Failed =>
         /\ last.from <= pos /\ pos <= Len(data)
         /\ pos = last.from <=> last.from = Len(data)
    /\ last.op = "skip" /\ Failed =>
         /\ 0 <= pos /\ pos <= Len(data)
         /\ last.from = Len(data) => pos = last.from

\* read_bool met a byte that is no bool, returned InvalidData and left pos
\* one byte on
C10_Witness ==
    /\ last.op = "read_bool" /\ last.st = "InvalidData"
    /\ pos = last.from + 1

----------------------------------------------------------------------------
(* SpecHalf: one f32 is written with write_f16, the Writer is finished and  *)
(* read_f16 reads it back.                                                  *)

\* both signs, every exponent, fractions with and without low bits
HalfVals ==
    {f32_from_fields(t[1], t[2], t[3]) :
        t \in {0, 1} \X (0..255) \X {0, 1, 4096, 8192, 4194304, 8380416, 8388607}}

NextHalf ==
    \/ WriteF16(HalfVals, 1)
    \/ Finish
    \/ ReadF16(Fresh, 1)

SpecHalf == InitWriter /\ [][NextHalf]_vars

\* the f32 v takes the subnormal branch of f32_to_f16_bits
in_subnormal_branch(v) == f32_exp(v) - 127 >= -24 /\ f32_exp(v) - 127 < -14

\* C11 as claimed: f32_to_f16_bits returns for every f32, each shift it
\* makes being by less than 32 bits, and f16_bits_to_f32 returns for every
\* u16.
C11_AsClaimed ==
    /\ Wrote("write_f16") =>
         /\ phase # "panic"
         /\ f32_to_f16_bits(calls[1].v).st = "Ok"
         /\ in_subnormal_branch(calls[1].v) => subnormal_shift(calls[1].v) < 32
    /\ Wrote("write_f16") /\ Did("read_f16") => last.st = "Ok"

\* v is exactly a binary16 value: a zero, a normal half (2^-14 .. 65504) or
\* a subnormal half (2^-24 .. 2^-15 and the fraction bits below 2^-24 zero)
representable(v) ==
    LET e == f32_exp(v)
        f == f32_frac(v)
    IN  \/ e = 0 /\ f = 0
        \/ e \in 113..142 /\ f % 8192 = 0
        \/ e \in 103..112 /\ f % (2 ^ (126 - e)) = 0

\* C12 as claimed: for v exactly representable in binary16, write_f16(v)
\* followed by read_f16 gives back the bit pattern of v.
C12_AsClaimed ==
    Wrote("write_f16") /\ representable(calls[1].v) =>
        /\ phase # "panic"
        /\ Did("read_f16") => last.st = "Ok" /\ last.val = calls[1].v

----------------------------------------------------------------------------
(* Claims on headers (SpecBytes) *)

\* the last call found a header byte with major type in M
MajorIn(M) == last.from < Len(data) /\ (data[last.from + 1] \div 32) \in M

\* ... with additional-info in A
InfoIn(A) == last.from < Len(data) /\ (data[last.from + 1] % 32) \in A

\* C13 as claimed: read_uvarint does not return Ok at a header whose major
\* type is not 0, nor read_ivarint at one whose major type is not 0 or 1.
C13_AsClaimed ==
    /\ last.op = "read_uvarint" /\ MajorIn(1..7) => last.st # "Ok"
    /\ last.op = "read_ivarint" /\ MajorIn(2..7) => last.st # "Ok"

SignedReaders == {"read_i8", "read_i16", "read_i32", "read_i64", "read_ivarint"}

\* C14 as claimed: a signed reader that succeeds returns m >= 0 at a header
\* of major type 0 and -1 - m < 0 at a header of major type 1, m being the
\* payload.
C14_AsClaimed ==
    last.op \in SignedReaders /\ last.st = "Ok" =>
        /\ MajorIn({0}) => is_nonneg(last.val)
        /\ MajorIn({1}) => ~is_nonneg(last.val)

\* C15 as claimed: skip comes to an end on every input, from every
\* position.
C15_AsClaimed == last.op = "skip" => last.st # "NoReturn"

\* C16 as claimed: skip does not return Ok when the header at the cursor is
\* a break byte outside an indefinite-length item, has a reserved
\* additional-info 28..30, or has additional-info 31 on major type 0, 1 or 6.
C16_AsClaimed ==
    last.op = "skip" /\ last.st = "Ok" =>
        /\ ~(MajorIn({7}) /\ InfoIn({31}))
        /\ ~InfoIn(28..30)
        /\ ~(MajorIn({0, 1, 6}) /\ InfoIn({31}))

====
